---- MODULE Spec2Model ----
(***************************************************************************)
(* GXAgent (great_expectations/agent/agent.py): one agent instance, its    *)
(* main thread (construction, run, _listen, the on_message callback that   *)
(* Subscriber.consume invokes) and the single worker thread of its         *)
(* ThreadPoolExecutor.                                                     *)
(***************************************************************************)
EXTENDS Naturals, Sequences, FiniteSets

(* ---- bounds of the model ---- *)
MaxDeliveries == 3      \* messages the broker delivers over the agent's life
MaxRuns == 2            \* calls of run() on the one instance

(* ---- program constants ---- *)
max_workers == 1        \* ThreadPoolExecutor(max_workers=1)

(* ---- values ---- *)
None == 0               \* self._current_task = None; handles are 1, 2, ...

\* what a call on the main thread may raise
Raisable == {"KeyboardInterrupt", "SubscriberError", "ClientError", "OtherError"}

NoError == [type |-> "None", origin |-> "None"]
Error(t, o) == [type |-> t, origin |-> o]

\* one print() call: the text, and the exception object when print(e)
Line(m) == [msg |-> m, e |-> NoError]
LineE(x) == [msg |-> "print(e)", e |-> x]

VARIABLES
    env,            \* os.environ: which of the two settings are present
    pc,             \* position of the main thread
    raised,         \* exception raised in __init__ or in _listen's try block
    close_error,    \* exception subscriber.close() raised in this run
    escaped,        \* exception that left run()
    config,         \* self._config is set
    context,        \* self._context: "None" or "CloudDataContext"
    executor,       \* self._executor exists
    current_task,   \* self._current_task: None or a handle
    futures,        \* handle -> Future: its call and its state
    work_queue,     \* the executor's queue of handles not yet picked up
    invocations,    \* calls of EventHandler.handle_event, in order
    client,         \* RabbitMQClient objects constructed in this run
    subscriber,     \* _listen's local: "None", "open" or "closed"
    consumes,       \* subscriber.consume calls in this run
    close_calls,    \* subscriber.close calls in this run
    message,        \* (event, correlation_id) the callback is handling
    outcomes,       \* per delivered message: how the callback ended
    delivered,      \* messages delivered so far
    runs,           \* run() calls so far
    log             \* what __init__ printed, then what the current run() has printed

vars == << env, pc, raised, close_error, escaped, config, context, executor, current_task, futures,
           work_queue, invocations, client, subscriber, consumes, close_calls,
           message, outcomes, delivered, runs, log >>

initVars == << config, context, executor, current_task >>
taskVars == << futures, work_queue, invocations >>
connVars == << client, subscriber, consumes, close_calls >>
excVars == << raised, close_error, escaped >>

NoMessage == [event |-> "None", correlation_id |-> "None"]

(* ---- helpers over futures ---- *)
Handles == 1..Len(futures)

\* Future.done(): the call finished, by returning or by raising
done(t) == futures[t].state = "FINISHED"

Running == {t \in Handles : futures[t].state = "RUNNING"}
Outstanding == {t \in Handles : futures[t].state # "FINISHED"}

(* ---- GXAgent._can_accept_new_task ---- *)
_can_accept_new_task_ignores_done == current_task = None

_can_accept_new_task_inverted == current_task = None \/ ~done(current_task)

_can_accept_new_task_needs_success ==
    current_task = None \/ (done(current_task) /\ ~futures[current_task].exception)

_can_accept_new_task_always == TRUE

_can_accept_new_task == current_task = None \/ done(current_task)

(* ---- GXAgent._get_config_from_env and GXAgent.__init__ ---- *)
_get_config_from_env_skips_org ==
    IF ~env.BROKER_URL THEN "GXAgentError" ELSE "GXAgentConfig"

_get_config_from_env ==
    IF ~env.BROKER_URL THEN "GXAgentError"
    ELSE IF ~env.GE_CLOUD_ORGANIZATION_ID THEN "GXAgentError"
    ELSE "GXAgentConfig"

\* line 48-49: the configuration is read first
InitGetConfig ==
    /\ pc = "new"
    /\ log' = Append(log, Line("Initializing GX-Agent"))
    /\ IF _get_config_from_env = "GXAgentError"
       THEN /\ pc' = "init_failed"
            /\ raised' = Error("GXAgentError", "__init__")
            /\ config' = config
       ELSE /\ pc' = "init_context"
            /\ config' = TRUE
            /\ raised' = raised
    /\ UNCHANGED << env, close_error, escaped, context, executor, current_task,
                    taskVars, connVars, message, outcomes, delivered, runs >>

\* line 50-52: get_context(cloud_mode=True)
InitGetContext ==
    /\ pc = "init_context"
    /\ context' = "CloudDataContext"
    /\ pc' = "init_executor"
    /\ log' = log \o << Line("Loading a DataContext - this might take a moment."),
                        Line("DataContext is ready.") >>
    /\ UNCHANGED << env, excVars, config, executor, current_task, taskVars,
                    connVars, message, outcomes, delivered, runs >>

\* line 58-59: the executor and the empty slot
InitExecutor ==
    /\ pc = "init_executor"
    /\ executor' = TRUE
    /\ current_task' = None
    /\ pc' = "ready"
    /\ UNCHANGED << env, excVars, config, context, taskVars, connVars,
                    message, outcomes, delivered, runs, log >>

Init ==
    /\ env \in [BROKER_URL : BOOLEAN, GE_CLOUD_ORGANIZATION_ID : BOOLEAN]
    /\ pc = "new"
    /\ raised = NoError
    /\ close_error = NoError
    /\ escaped = NoError
    /\ config = FALSE
    /\ context = "None"
    /\ executor = FALSE
    /\ current_task = None
    /\ futures = << >>
    /\ work_queue = << >>
    /\ invocations = << >>
    /\ client = 0
    /\ subscriber = "None"
    /\ consumes = 0
    /\ close_calls = 0
    /\ message = NoMessage
    /\ outcomes = << >>
    /\ delivered = 0
    /\ runs = 0
    /\ log = << >>

(* ---- the worker thread of the executor ---- *)
\* The worker takes the next queued call when it is free and enters
\* _handle_event, which calls EventHandler(context).handle_event(event, correlation_id).
_handle_event_begin ==
    /\ executor
    /\ work_queue # << >>
    /\ Cardinality(Running) < max_workers
    /\ LET t == Head(work_queue) IN
        /\ futures' = [futures EXCEPT ![t].state = "RUNNING"]
        /\ invocations' = Append(invocations,
              [context |-> context, event |-> futures[t].event,
               correlation_id |-> futures[t].correlation_id, handle |-> t])
    /\ work_queue' = Tail(work_queue)
    /\ UNCHANGED << env, pc, excVars, initVars, connVars, message, outcomes,
                    delivered, runs, log >>

\* what EventHandler.handle_event may do: return, or raise an error
HandlerResults == {"return", "raise"}

\* a call that raised is put back on the queue
_handle_event_end_retries(t, r) ==
    /\ t \in Running
    /\ IF r = "raise"
       THEN /\ futures' = [futures EXCEPT ![t].state = "PENDING", ![t].exception = TRUE]
            /\ work_queue' = Append(work_queue, t)
       ELSE /\ futures' = [futures EXCEPT ![t].state = "FINISHED"]
            /\ work_queue' = work_queue
    /\ UNCHANGED << env, pc, excVars, initVars, invocations,
                    connVars, message, outcomes, delivered, runs, log >>

\* _handle_event returns or raises; the executor stores either on the Future
_handle_event_end(t, r) ==
    /\ t \in Running
    /\ futures' = [futures EXCEPT ![t].state = "FINISHED",
                                  ![t].exception = (r = "raise")]
    /\ UNCHANGED << env, pc, excVars, initVars, work_queue, invocations,
                    connVars, message, outcomes, delivered, runs, log >>

(* ---- GXAgent._handle_event_as_thread: the on_message callback ---- *)
\* a delivered message decodes into an event and its correlation id
Messages == {[event |-> "E1", correlation_id |-> "c1"],
             [event |-> "E2", correlation_id |-> "c2"]}

Outcome(m, r) == [event |-> m.event, correlation_id |-> m.correlation_id, result |-> r]

\* line 102: Subscriber.consume invokes the callback, which checks admission first
Deliver(m) ==
    /\ pc = "consuming"
    /\ delivered < MaxDeliveries
    /\ delivered' = delivered + 1
    /\ message' = m
    /\ pc' = IF _can_accept_new_task THEN "submit" ELSE "requeue"
    /\ UNCHANGED << env, excVars, initVars, taskVars, connVars, outcomes, runs, log >>

\* a rejection that also forgets the held handle
Reject_clears_slot ==
    /\ pc = "requeue"
    /\ current_task' = None
    /\ outcomes' = Append(outcomes, Outcome(message, "RequeueMessageError"))
    /\ message' = NoMessage
    /\ pc' = "consuming"
    /\ UNCHANGED << env, excVars, config, context, executor, taskVars, connVars,
                    delivered, runs, log >>

\* a rejection that returns instead of raising
Reject_returns ==
    /\ pc = "requeue"
    /\ outcomes' = Append(outcomes, Outcome(message, "returned"))
    /\ message' = NoMessage
    /\ pc' = "consuming"
    /\ UNCHANGED << env, excVars, initVars, taskVars, connVars, delivered, runs, log >>

\* a rejection that first waits for the held call to finish
Reject_waits ==
    /\ pc = "requeue"
    /\ done(current_task)
    /\ outcomes' = Append(outcomes, Outcome(message, "RequeueMessageError"))
    /\ message' = NoMessage
    /\ pc' = "consuming"
    /\ UNCHANGED << env, excVars, initVars, taskVars, connVars, delivered, runs, log >>

\* line 104: raise RequeueMessageError
Reject ==
    /\ pc = "requeue"
    /\ outcomes' = Append(outcomes, Outcome(message, "RequeueMessageError"))
    /\ message' = NoMessage
    /\ pc' = "consuming"
    /\ UNCHANGED << env, excVars, initVars, taskVars, connVars, delivered, runs, log >>

\* the call is handed to the executor twice
Submit_twice ==
    /\ pc = "submit"
    /\ futures' = Append(futures,
          [event |-> message.event, correlation_id |-> message.correlation_id,
           state |-> "PENDING", exception |-> FALSE])
    /\ work_queue' = work_queue \o << Len(futures) + 1, Len(futures) + 1 >>
    /\ current_task' = Len(futures) + 1
    /\ outcomes' = Append(outcomes, Outcome(message, "returned"))
    /\ message' = NoMessage
    /\ pc' = "consuming"
    /\ UNCHANGED << env, excVars, config, context, executor, invocations,
                    connVars, delivered, runs, log >>

\* line 105-107: self._current_task = self._executor.submit(self._handle_event, ...)
Submit ==
    /\ pc = "submit"
    /\ futures' = Append(futures,
          [event |-> message.event, correlation_id |-> message.correlation_id,
           state |-> "PENDING", exception |-> FALSE])
    /\ work_queue' = Append(work_queue, Len(futures) + 1)
    /\ current_task' = Len(futures) + 1
    /\ outcomes' = Append(outcomes, Outcome(message, "returned"))
    /\ message' = NoMessage
    /\ pc' = "consuming"
    /\ UNCHANGED << env, excVars, config, context, executor, invocations,
                    connVars, delivered, runs, log >>

\* every message starts its handler on a thread of its own, with no admission check
_handle_event_as_thread_own_thread ==
    \E m \in Messages :
        /\ pc = "consuming"
        /\ delivered < MaxDeliveries
        /\ delivered' = delivered + 1
        /\ futures' = Append(futures,
              [event |-> m.event, correlation_id |-> m.correlation_id,
               state |-> "RUNNING", exception |-> FALSE])
        /\ invocations' = Append(invocations,
              [context |-> context, event |-> m.event,
               correlation_id |-> m.correlation_id, handle |-> Len(futures) + 1])
        /\ current_task' = Len(futures) + 1
        /\ outcomes' = Append(outcomes, Outcome(m, "returned"))
        /\ UNCHANGED << env, pc, excVars, config, context, executor, work_queue,
                        connVars, message, runs, log >>

_handle_event_as_thread ==
    \/ \E m \in Messages : Deliver(m)
    \/ Reject
    \/ Submit

(* ---- GXAgent.run and GXAgent._listen ---- *)
\* line 61-65 and line 70: run() prints and enters _listen, subscriber = None
run ==
    /\ pc \in {"ready", "returned", "run_raised"}
    /\ runs < MaxRuns
    /\ runs' = runs + 1
    /\ log' = << Line("Opening connection to GX Cloud") >>
    /\ raised' = NoError
    /\ close_error' = NoError
    /\ escaped' = NoError
    /\ client' = 0
    /\ subscriber' = "None"
    /\ consumes' = 0
    /\ close_calls' = 0
    /\ pc' = "listen_client"
    /\ UNCHANGED << env, initVars, taskVars, message, outcomes, delivered >>

\* line 72: client = RabbitMQClient(url=self._config.broker_url)
NewClient(r) ==
    /\ pc = "listen_client"
    /\ IF r = "ok"
       THEN /\ client' = client + 1
            /\ pc' = "listen_subscriber"
            /\ raised' = raised
       ELSE /\ raised' = Error(r, "RabbitMQClient")
            /\ pc' = "except"
            /\ client' = client
    /\ UNCHANGED << env, close_error, escaped, initVars, taskVars, subscriber,
                    consumes, close_calls, message, outcomes, delivered, runs, log >>

\* line 73-74: subscriber = Subscriber(client=client)
NewSubscriber(r) ==
    /\ pc = "listen_subscriber"
    /\ IF r = "ok"
       THEN /\ subscriber' = "open"
            /\ log' = Append(log, Line("GX-Agent is ready."))
            /\ pc' = "listen_consume"
            /\ raised' = raised
       ELSE /\ raised' = Error(r, "Subscriber")
            /\ pc' = "except"
            /\ UNCHANGED << subscriber, log >>
    /\ UNCHANGED << env, close_error, escaped, initVars, taskVars, client,
                    consumes, close_calls, message, outcomes, delivered, runs >>

\* line 76-79: subscriber.consume(queue=..., on_message=self._handle_event_as_thread)
Consume ==
    /\ pc = "listen_consume"
    /\ consumes' = consumes + 1
    /\ pc' = "consuming"
    /\ UNCHANGED << env, excVars, initVars, taskVars, client, subscriber,
                    close_calls, message, outcomes, delivered, runs, log >>

\* consume blocks until it raises: a shutdown signal or an error
ConsumeRaises(r) ==
    /\ pc = "consuming"
    /\ raised' = Error(r, "consume")
    /\ pc' = "except"
    /\ UNCHANGED << env, close_error, escaped, initVars, taskVars, connVars,
                    message, outcomes, delivered, runs, log >>

\* ... or until the subscription is closed, and then it returns
ConsumeReturns ==
    /\ pc = "consuming"
    /\ pc' = "finally"
    /\ UNCHANGED << env, excVars, initVars, taskVars, connVars, message,
                    outcomes, delivered, runs, log >>

CaughtAsShutdown_never(t) == FALSE

\* line 80: except KeyboardInterrupt
CaughtAsShutdown(t) == t = "KeyboardInterrupt"

CaughtAsConnectionError_no_client(t) == t = "SubscriberError"

\* line 82: except (SubscriberError, ClientError) as e
CaughtAsConnectionError(t) == t \in {"SubscriberError", "ClientError"}

\* the exception passes both except clauses and leaves _listen after the finally
Propagates(x) ==
    /\ x # NoError
    /\ ~CaughtAsShutdown(x.type)
    /\ ~CaughtAsConnectionError(x.type)

\* a connection error sends _listen back to opening a client
Except_reconnects ==
    /\ pc = "except"
    /\ log' = log
    /\ pc' = IF CaughtAsConnectionError(raised.type) THEN "listen_client" ELSE "finally"
    /\ UNCHANGED << env, excVars, initVars, taskVars, connVars, message,
                    outcomes, delivered, runs >>

\* line 80-85: the except clauses
Except ==
    /\ pc = "except"
    /\ log' = IF CaughtAsShutdown(raised.type)
              THEN Append(log, Line("Received request to shutdown."))
              ELSE IF CaughtAsConnectionError(raised.type)
              THEN log \o << Line("Connection to GX Cloud has encountered an error."),
                             Line("Please restart the agent and try your action again."),
                             LineE(raised) >>
              ELSE log
    /\ pc' = "finally"
    /\ UNCHANGED << env, excVars, initVars, taskVars, connVars, message,
                    outcomes, delivered, runs >>

(* ---- GXAgent._close_subscriber ---- *)
\* what subscriber.close() may raise
CloseRaisable == {"SubscriberError"}

CloseSwallows_nothing(t) == FALSE

\* line 136: except SubscriberError as e
CloseSwallows(t) == t = "SubscriberError"

\* _listen is left: run() prints and returns, or the pending exception leaves run()
Leave(l) ==
    IF Propagates(raised)
    THEN /\ pc' = "run_raised"
         /\ escaped' = raised
         /\ log' = l
    ELSE /\ pc' = "returned"
         /\ escaped' = escaped
         /\ log' = Append(l, Line("Connection to GX Cloud has been closed."))

\* closing also shuts the executor down and drops the calls still queued
_close_subscriber_cancels(r) ==
    /\ pc = "finally"
    /\ r = "ok"
    /\ work_queue' = << >>
    /\ IF subscriber = "None"
       THEN UNCHANGED << subscriber, close_calls >>
       ELSE close_calls' = close_calls + 1 /\ subscriber' = "closed"
    /\ Leave(log)
    /\ UNCHANGED << env, raised, close_error, initVars, futures, invocations,
                    client, consumes, message, outcomes, delivered, runs >>

\* close() is called without looking whether a subscriber exists
_close_subscriber_no_none_check(r) ==
    /\ pc = "finally"
    /\ close_calls' = close_calls + 1
    /\ subscriber' = subscriber
    /\ IF r = "ok"
       THEN Leave(log) /\ close_error' = close_error
       ELSE /\ close_error' = Error(r, "close")
            /\ Leave(log \o << Line("Subscriber encountered an error while closing:"),
                                LineE(Error(r, "close")) >>)
    /\ UNCHANGED << env, raised, initVars, taskVars, client, consumes, message,
                    outcomes, delivered, runs >>

\* line 86-87 and 130-138: finally: self._close_subscriber(subscriber)
_close_subscriber(r) ==
    /\ pc = "finally"
    /\ IF subscriber = "None"
       THEN /\ r = "ok"             \* line 132-133: nothing to close
            /\ Leave(log)
            /\ UNCHANGED << close_error, subscriber, close_calls >>
       ELSE /\ close_calls' = close_calls + 1
            /\ subscriber' = "closed"
            /\ IF r = "ok"
               THEN Leave(log) /\ close_error' = close_error
               ELSE /\ close_error' = Error(r, "close")
                    /\ IF CloseSwallows(r)
                       THEN Leave(log \o << Line("Subscriber encountered an error while closing:"),
                                            LineE(Error(r, "close")) >>)
                       ELSE /\ pc' = "run_raised"
                            /\ escaped' = Error(r, "close")
                            /\ log' = log
    /\ UNCHANGED << env, raised, initVars, taskVars, client, consumes, message,
                    outcomes, delivered, runs >>

Next ==
    \/ InitGetConfig
    \/ InitGetContext
    \/ InitExecutor
    \/ run
    \/ \E r \in {"ok"} \cup Raisable : NewClient(r)
    \/ \E r \in {"ok"} \cup Raisable : NewSubscriber(r)
    \/ Consume
    \/ _handle_event_as_thread
    \/ \E r \in Raisable : ConsumeRaises(r)
    \/ ConsumeReturns
    \/ Except
    \/ \E r \in {"ok"} \cup CloseRaisable : _close_subscriber(r)
    \/ _handle_event_begin
    \/ \E t \in Handles, r \in HandlerResults : _handle_event_end(t, r)

Spec == Init /\ [][Next]_vars

\* The worker thread is scheduled fairly and every handler call ends: a queued
\* call is eventually started, a running call eventually returns or raises.
FairSpec ==
    /\ Spec
    /\ WF_vars(_handle_event_begin)
    /\ WF_vars(\E t \in Handles, r \in HandlerResults : _handle_event_end(t, r))

(***************************************************************************)
(* Properties                                                              *)
(***************************************************************************)
\* a step in which Subscriber.consume hands one message to the callback
DeliveredStep == pc = "consuming" /\ delivered' = delivered + 1

\* the slot and the number of calls ever submitted are as before
SlotUntouched == current_task' = current_task /\ Len(futures') = Len(futures)

\* C1: at most one invocation of _handle_event / EventHandler.handle_event is
\* in progress in every reachable state, whatever the interleaving of the
\* consumption loop and the worker thread.
C1_AtMostOneInProgress == Cardinality(Running) <= 1

\* a message is being rejected while a handler runs
C1_Witness == pc = "requeue" /\ Cardinality(Running) = 1

\* C2: a message delivered while the held handle exists and is not done is
\* rejected, and until the callback has raised, _current_task is the same
\* handle and nothing is submitted to the executor.
C2_RejectHasNoEffect ==
    [][ /\ (DeliveredStep /\ current_task # None /\ ~done(current_task))
            => (pc' = "requeue" /\ SlotUntouched)
        /\ pc = "requeue"
            => (pc' \in {"requeue", "consuming"} /\ SlotUntouched) ]_vars

\* a rejection is over and the handle it met is still held and still not done
C2_Witness ==
    /\ pc = "consuming"
    /\ outcomes # << >>
    /\ outcomes[Len(outcomes)].result = "RequeueMessageError"
    /\ current_task # None
    /\ ~done(current_task)

\* C3: the callback of a message that failed admission ends by raising
\* RequeueMessageError (never by returning, never without an outcome), and
\* the callback of an admitted message returns without raising it.
C3_RejectedIsRequeued ==
    [][ /\ (pc = "requeue" /\ pc' # "requeue")
            => outcomes' = Append(outcomes, Outcome(message, "RequeueMessageError"))
        /\ (pc = "submit" /\ pc' # "submit")
            => outcomes' = Append(outcomes, Outcome(message, "returned"))
        /\ Len(outcomes') > Len(outcomes) => pc \in {"requeue", "submit"} ]_vars

\* both kinds of outcome have happened
C3_Witness ==
    /\ \E i \in 1..Len(outcomes) : outcomes[i].result = "RequeueMessageError"
    /\ \E i \in 1..Len(outcomes) : outcomes[i].result = "returned"

\* C4: as soon as the held call has finished (returned or raised) the
\* admission check is true, and a message delivered then is admitted; no
\* release step lies in between.
C4_DoneFreesSlot ==
    [][ /\ (current_task # None /\ ~done(current_task) /\ done(current_task)')
            => _can_accept_new_task'
        /\ (DeliveredStep /\ current_task # None
                /\ futures[current_task].state = "FINISHED")
            => pc' = "submit" ]_vars

\* a message is admitted on a slot whose held call has finished
C4_Witness == pc = "submit" /\ current_task # None /\ done(current_task)

\* C5: a delivered message is admitted exactly when no call submitted before
\* is unfinished at the admission check; so the first message is always
\* admitted.
C5_AcceptedIffNoneOutstanding ==
    [][ /\ DeliveredStep => (pc' = "submit" <=> Outstanding = {})
        /\ DeliveredStep => (pc' = "requeue" <=> Outstanding # {})
        /\ Len(outcomes') >= 1 => outcomes'[1].result = "returned" ]_vars

\* E1 accepted, E2 rejected while E1 was unfinished, E3 accepted after E1 finished
C5_Witness ==
    /\ Len(outcomes) = 3
    /\ outcomes[1].result = "returned"
    /\ outcomes[2].result = "RequeueMessageError"
    /\ outcomes[3].result = "returned"
    /\ Len(futures) = 2
    /\ done(1)

\* C6: after a KeyboardInterrupt out of consume, run() goes through the
\* finally, has called subscriber.close() exactly once when it ends, and ends
\* by returning.
ShutdownDuringConsume == raised = Error("KeyboardInterrupt", "consume")

C6_ShutdownClosesOnceAndReturns ==
    ShutdownDuringConsume =>
        /\ pc \in {"except", "finally", "returned"}
        /\ pc \in {"except", "finally"} => (close_calls = 0 /\ subscriber = "open")
        /\ pc = "returned" => (close_calls = 1 /\ subscriber = "closed"
                               /\ escaped = NoError)

C6_Witness == ShutdownDuringConsume /\ pc = "returned" /\ close_calls = 1

\* C7: with BROKER_URL or GE_CLOUD_ORGANIZATION_ID absent, construction ends
\* in GXAgentError with no context loaded, no executor, no client and no
\* subscriber, and the agent never runs.
ConfigMissing == ~env.BROKER_URL \/ ~env.GE_CLOUD_ORGANIZATION_ID

C7_MissingConfigFailsFirst ==
    (ConfigMissing /\ pc # "new") =>
        /\ pc = "init_failed"
        /\ raised = Error("GXAgentError", "__init__")
        /\ ~config
        /\ context = "None"
        /\ ~executor
        /\ client = 0
        /\ subscriber = "None"
        /\ runs = 0

C7_Witness ==
    pc = "init_failed" /\ env.BROKER_URL /\ ~env.GE_CLOUD_ORGANIZATION_ID

\* C8: when consume raised SubscriberError or ClientError and close() raised
\* too, run() returns, no exception leaves it, and the log shows the
\* connection error first and the close error after it, as separate entries.
ConnectionErrorIn(o) ==
    raised.origin = o /\ raised.type \in {"SubscriberError", "ClientError"}

Printed(x) == \E i \in 1..Len(log) : log[i] = LineE(x)

PrintedBefore(x, y) ==
    \E i, j \in 1..Len(log) : i < j /\ log[i] = LineE(x) /\ log[j] = LineE(y)

C8_CloseErrorDoesNotMask ==
    (ConnectionErrorIn("consume") /\ close_error # NoError) =>
        /\ pc = "returned"
        /\ escaped = NoError
        /\ close_error # raised
        /\ PrintedBefore(raised, close_error)
        /\ \A i \in 1..Len(log) : log[i].e \in {NoError, raised, close_error}

C8_Witness ==
    /\ ConnectionErrorIn("consume")
    /\ close_error # NoError
    /\ pc = "returned"

\* C9: a handler that raises changes nothing on the main thread (its position
\* and its exceptions), the error is kept on the handle, the admission check
\* is true right after, and a message delivered then is admitted.
C9_HandlerErrorIsIsolated ==
    [][ /\ \A t \in Running :
             (futures'[t].state = "FINISHED" /\ futures'[t].exception)
                => /\ pc' = pc
                   /\ << raised, close_error, escaped >>' = << raised, close_error, escaped >>
                   /\ (t = current_task => _can_accept_new_task')
        /\ (DeliveredStep /\ current_task # None
                /\ futures[current_task].state = "FINISHED"
                /\ futures[current_task].exception)
            => pc' = "submit" ]_vars

\* a second call was submitted after the first one had raised
C9_Witness ==
    /\ Len(futures) >= 2
    /\ futures[1].exception
    /\ pc = "consuming"

\* C10: after SubscriberError or ClientError from opening or consuming, the
\* error is printed, the subscriber (if one exists) is closed exactly once,
\* run() returns, and no second client or consume call is made in that run.
ConnectionError ==
    \E o \in {"RabbitMQClient", "Subscriber", "consume"} : ConnectionErrorIn(o)

C10_ConnectionErrorEndsRun ==
    ConnectionError =>
        /\ pc \in {"except", "finally", "returned"}
        /\ pc \in {"finally", "returned"} => Printed(raised)
        /\ pc = "returned" =>
              /\ escaped = NoError
              /\ subscriber # "open"
              /\ close_calls = (IF subscriber = "closed" THEN 1 ELSE 0)
        /\ client <= 1
        /\ consumes <= 1

C10_Witness ==
    /\ ConnectionErrorIn("consume")
    /\ raised.type = "ClientError"
    /\ pc = "returned"
    /\ close_error = NoError

\* the handles waiting in the executor's queue
Queued == {work_queue[i] : i \in 1..Len(work_queue)}

\* C11: closing the subscription neither cancels nor interrupts nor waits for
\* a submitted call: the finally can always be taken, whatever the worker is
\* doing; every call not yet started is still queued and can start when the
\* worker is free; every running call can still return or raise.
C11_ShutdownDoesNotPreempt ==
    /\ pc = "finally" => ENABLED (\E r \in {"ok"} \cup CloseRaisable : _close_subscriber(r))
    /\ \A t \in Handles :
          /\ futures[t].state = "PENDING" => t \in Queued
          /\ futures[t].state = "RUNNING" =>
                ENABLED (\E r \in HandlerResults : _handle_event_end(t, r))
    /\ (work_queue # << >> /\ Running = {}) => ENABLED _handle_event_begin

\* run() has ended, the subscriber is closed, and a call is still running
C11_Witness ==
    /\ pc \in {"returned", "run_raised"}
    /\ subscriber = "closed"
    /\ Running # {}

\* C12: the callback never waits for the worker: while a submitted call is
\* unfinished a message can be delivered, and the callback's raise or submit
\* can be taken at once.
C12_DispatchNeverWaits ==
    /\ (pc = "consuming" /\ delivered < MaxDeliveries)
          => \A m \in Messages : ENABLED Deliver(m)
    /\ pc = "requeue" => ENABLED Reject
    /\ pc = "submit" => ENABLED Submit

\* two callbacks have ended while the first call is still unfinished
C12_Witness ==
    /\ pc = "consuming"
    /\ Len(outcomes) >= 2
    /\ Len(futures) = 1
    /\ ~done(1)

\* C13: at most one submitted call is unfinished (queued or running) in every
\* reachable state; a queued call never waits behind a running one.
C13_OneOutstanding ==
    /\ Cardinality(Outstanding) <= 1
    /\ Len(work_queue) <= 1
    /\ work_queue # << >> => Running = {}
    /\ Outstanding \subseteq {current_task}

\* a message is being rejected while the one outstanding call is still queued
C13_Witness ==
    /\ pc = "requeue"
    /\ Len(work_queue) = 1
    /\ Cardinality(Outstanding) = 1

\* the callbacks that returned, in order: the accepted messages
IsAccepted(o) == o.result = "returned"
Accepted == SelectSeq(outcomes, IsAccepted)

\* how often the handler was entered for handle t
InvocationsOf(t) == Cardinality({i \in 1..Len(invocations) : invocations[i].handle = t})

\* C14: the submitted calls are exactly the accepted messages, in order, with
\* their event and correlation id; the last one is the held handle; the
\* handler is entered with the agent's context and the call's own event and
\* correlation id, never twice for one call and never for a rejected message.
C14_AcceptedIsInvokedOnce ==
    /\ Len(Accepted) = Len(futures)
    /\ current_task = Len(futures)
    /\ \A t \in Handles :
          /\ futures[t].event = Accepted[t].event
          /\ futures[t].correlation_id = Accepted[t].correlation_id
          /\ InvocationsOf(t) = (IF futures[t].state = "PENDING" THEN 0 ELSE 1)
    /\ \A i \in 1..Len(invocations) :
          /\ invocations[i].handle \in Handles
          /\ invocations[i].context = "CloudDataContext"
          /\ invocations[i].event = futures[invocations[i].handle].event
          /\ invocations[i].correlation_id = futures[invocations[i].handle].correlation_id

\* two different messages were accepted and handled, one was rejected in between
C14_Witness ==
    /\ Len(invocations) = 2
    /\ invocations[1].event # invocations[2].event
    /\ \E i \in 1..Len(outcomes) : outcomes[i].result = "RequeueMessageError"

\* C15: a call whose handler raised stays finished: it is not queued again,
\* its handler was entered once, no call exists beyond the accepted messages,
\* each delivered message has one outcome only, and no exception of a handler
\* is raised on the main thread.
C15_FailedIsNotRetried ==
    /\ \A t \in Handles :
          futures[t].exception =>
              (done(t) /\ t \notin Queued /\ InvocationsOf(t) = 1)
    /\ Len(futures) = Len(Accepted)
    /\ Len(outcomes) = delivered - (IF pc \in {"submit", "requeue"} THEN 1 ELSE 0)
    /\ \A x \in {raised, escaped} :
          x.origin \in {"None", "__init__", "RabbitMQClient", "Subscriber", "consume"}

\* the only call raised, and run() has returned since
C15_Witness ==
    /\ Len(futures) = 1
    /\ futures[1].exception
    /\ pc = "returned"

\* C16: with a fairly scheduled worker and handlers that end, whenever the
\* admission check is false it is true again later: the slot never stays
\* busy for ever.
C16_BusyLeadsToAvailable == (~_can_accept_new_task) ~> _can_accept_new_task

\* the slot was taken and is available again, with the loop still consuming
C16_Witness ==
    /\ pc = "consuming"
    /\ current_task # None
    /\ _can_accept_new_task
    /\ delivered < MaxDeliveries

\* where the main thread stands in the connection lifecycle:
\* 0 Unopened, 1 Opening, 2 Consuming, 3 Closing, 4 Closed
Lifecycle ==
    CASE pc \in {"new", "init_context", "init_executor", "init_failed", "ready"} -> 0
      [] pc \in {"listen_client", "listen_subscriber", "listen_consume"} -> 1
      [] pc \in {"consuming", "submit", "requeue"} -> 2
      [] pc \in {"except", "finally"} -> 3
      [] pc \in {"returned", "run_raised"} -> 4

\* C17 as stated: the lifecycle never moves back, so once Closed the instance
\* never opens or consumes again.
C17_ClosedIsTerminal == [][Lifecycle' >= Lifecycle]_vars

\* C17 as amended: within one call of run() the lifecycle never moves back;
\* it leaves Closed only by a further call of run(), which starts at Opening.
C17_ForwardWithinOneRun ==
    [][ /\ runs' = runs => Lifecycle' >= Lifecycle
        /\ runs' # runs => (Lifecycle \in {0, 4} /\ Lifecycle' = 1
                            /\ runs' = runs + 1) ]_vars

\* a second call of run() on the same instance is consuming
C17_Witness == runs = 2 /\ pc = "consuming"

\* C18: whatever ended the try block, a subscriber that exists is closed
\* exactly once by the time run() has ended and not before the finally; an
\* error raised by close() is printed and never is the exception that leaves
\* run().
C18_CloseOnceAndSwallowed ==
    /\ close_calls <= 1
    /\ (subscriber # "None" /\ pc \in {"returned", "run_raised"})
          => (close_calls = 1 /\ subscriber = "closed")
    /\ (subscriber # "None" /\ pc \in {"consuming", "submit", "requeue", "except", "finally"})
          => (close_calls = 0 /\ subscriber = "open")
    /\ close_error # NoError =>
          /\ pc \in {"returned", "run_raised"}
          /\ Printed(close_error)
          /\ (pc = "run_raised") = Propagates(raised)
    /\ escaped \in {NoError, raised}
    /\ escaped.origin # "close"

\* another exception left consume and run(), and close() had raised as well
C18_Witness ==
    /\ pc = "run_raised"
    /\ raised = Error("OtherError", "consume")
    /\ escaped = raised
    /\ close_error # NoError
    /\ close_calls = 1

\* C19: after ClientError or SubscriberError from RabbitMQClient() or
\* Subscriber(), no subscriber exists, close() and consume are never called,
\* the callback is never entered, the error is printed and run() returns.
OpeningFailed ==
    ConnectionErrorIn("RabbitMQClient") \/ ConnectionErrorIn("Subscriber")

C19_OpeningFailureSkipsClose ==
    OpeningFailed =>
        /\ subscriber = "None"
        /\ close_calls = 0
        /\ consumes = 0
        /\ close_error = NoError
        /\ message = NoMessage
        /\ pc \in {"except", "finally", "returned"}
        /\ pc \in {"finally", "returned"} => Printed(raised)
        /\ pc = "returned" => escaped = NoError

C19_Witness ==
    /\ raised = Error("SubscriberError", "Subscriber")
    /\ client = 1
    /\ pc = "returned"
====
